---- MODULE Spec2Model ----
(***************************************************************************)
(* p7z2tar: streams the entries of 7z archives to stdout as a tar stream.  *)
(*                                                                         *)
(* Three specifications share this module:                                 *)
(*   SpecReader   - one ArchiveEntryBlocks object under arbitrary read     *)
(*                  calls (src/p7z2tar.py:28-75);                          *)
(*   SpecPipeline - one run of extract_to_stdout (src/p7z2tar.py:131-179); *)
(*   SpecMapper   - tarinfo_from_libarchive_entry on arbitrary entries     *)
(*                  (src/p7z2tar.py:11-25).                                *)
(*                                                                         *)
(* Python values: bytes and lists are sequences; an Optional value is      *)
(* PyNone (the empty tuple) or Some(v) (a one-element tuple).  A byte of   *)
(* an entry is labelled by its position in the entry's content, so that a  *)
(* dropped, duplicated or reordered byte always shows: the code never      *)
(* inspects byte values.                                                   *)
(***************************************************************************)
EXTENDS Integers, Sequences, FiniteSets, TLC

\* ------------------------------------------------------------------ bounds
MaxChunks == 3      \* chunks in the sequence handed to a reader
MaxChunkLen == 2    \* bytes in one chunk
MaxSize == 3        \* largest positive size passed to read
MaxCalls == 3       \* read calls made on one reader
MaxArchives == 2    \* archives on the command line
MaxEntries == 2     \* entries over all archives of a run
MaxLines == 2       \* lines of the list given with -T
MaxEntrySize == 2   \* declared size of an entry handed to the mapper alone
CopyBufSize == 2    \* tarfile's copy buffer (16 KiB), scaled down

\* ------------------------------------------------------- Python primitives
PyNone == << >>
Some(v) == <<v>>
Val(o) == o[1]

Min(a, b) == IF a < b THEN a ELSE b

\* A slice index as Python normalises it for a sequence of length n.
PyIndex(i, n) ==
    IF i < 0 THEN (IF i + n < 0 THEN 0 ELSE i + n)
    ELSE (IF i > n THEN n ELSE i)

\* s[i:j]
PySlice(s, i, j) ==
    LET a == PyIndex(i, Len(s))
        b == PyIndex(j, Len(s))
    IN IF a >= b THEN << >> ELSE SubSeq(s, a + 1, b)

\* s[i:]
PySliceFrom(s, i) == PySlice(s, i, Len(s))

\* b''.join(parts)
RECURSIVE Join(_)
Join(parts) ==
    IF parts = << >> THEN << >> ELSE Head(parts) \o Join(Tail(parts))

\* ------------------------------------------------------ ArchiveEntryBlocks
\* __init__: the iterator, no block held, no cursor.
ArchiveEntryBlocks(blocks) ==
    [blocks |-> blocks, curr_block |-> PyNone, cursor |-> PyNone]

\* _read_all: joins what the iterator still yields; curr_block and cursor
\* are not touched.
ReadAllHeldFirst(self) ==
    [self |-> [self EXCEPT !.blocks = << >>],
     ret |-> (IF self.curr_block = PyNone THEN << >> ELSE Val(self.curr_block))
                \o Join(self.blocks),
     iters |-> 0]

ReadAllSkipFirst(self) ==
    [self |-> [self EXCEPT !.blocks = << >>],
     ret |-> IF self.blocks = << >> THEN << >> ELSE Join(Tail(self.blocks)),
     iters |-> 0]

read_all(self) ==
    [self |-> [self EXCEPT !.blocks = << >>],
     ret |-> Join(self.blocks),
     iters |-> 0]

\* size == 0: return b'' at once.
ReadZeroDrains(self) == read_all(self)

ReadZero(self) == [self |-> self, ret |-> << >>, iters |-> 0]

\* self.cursor = prev_cursor - size: what has been retrieved is forgotten.
NextCursorForgetsRetrieved(retrieved_size, prev_cursor, size) ==
    prev_cursor - size

\* self.cursor = retrieved_size + prev_cursor - size
NextCursor(retrieved_size, prev_cursor, size) ==
    retrieved_size + prev_cursor - size

\* if self.cursor <= 0: the chunk is used up.
UsedUpStrict(cursor) == cursor < 0

UsedUp(cursor) == cursor <= 0

\* The while loop of read for size > 0.  cbuf is the list of slices, joined
\* on return; iters counts the iterations of the loop body.
RECURSIVE ReadLoop(_, _, _, _, _)
ReadLoop(self, size, retrieved_size, cbuf, iters) ==
    IF ~(retrieved_size < size)
    THEN [self |-> self, ret |-> Join(cbuf), iters |-> iters]
    ELSE IF self.cursor = PyNone /\ self.blocks = << >>
    THEN \* next() raises StopIteration: break
         [self |-> self, ret |-> Join(cbuf), iters |-> iters + 1]
    ELSE
      LET pulled == IF self.cursor = PyNone
                    THEN [self EXCEPT !.curr_block = Some(Head(self.blocks)),
                                      !.blocks = Tail(self.blocks)]
                    ELSE self
          curr_block == Val(pulled.curr_block)
          prev_cursor == IF self.cursor = PyNone
                         THEN Len(curr_block)
                         ELSE Val(self.cursor)
          cursor == NextCursor(retrieved_size, prev_cursor, size)
      IN IF UsedUp(cursor)
         THEN ReadLoop([pulled EXCEPT !.cursor = PyNone], size,
                       retrieved_size + prev_cursor,
                       Append(cbuf, PySliceFrom(curr_block, -prev_cursor)),
                       iters + 1)
         ELSE ReadLoop([pulled EXCEPT !.cursor = Some(cursor)], size,
                       retrieved_size + prev_cursor - cursor,
                       Append(cbuf, PySlice(curr_block, -prev_cursor, -cursor)),
                       iters + 1)

\* read(size) that enters the loop a second time when the result is short.
ReadRetriesWhenShort(self, arg) ==
    LET size == IF arg = PyNone THEN -1 ELSE Val(arg)
        first == ReadLoop(self, size, 0, << >>, 0)
    IN IF size < 0 THEN read_all(self)
       ELSE IF size = 0 THEN ReadZero(self)
       ELSE IF Len(first.ret) < size
       THEN ReadLoop(first.self, size, Len(first.ret), <<first.ret>>, first.iters)
       ELSE first

\* read(size): arg is PyNone or Some(integer).
read(self, arg) ==
    LET size == IF arg = PyNone THEN -1 ELSE Val(arg)
    IN IF size < 0 THEN read_all(self)
       ELSE IF size = 0 THEN ReadZero(self)
       ELSE ReadLoop(self, size, 0, << >>, 0)

\* ------------------------------------------------------------ chunk inputs
\* The chunk sequence whose chunks have the lengths lens, over the bytes
\* 1, 2, ... of the entry's content.
RECURSIVE BytesFrom(_, _)
BytesFrom(first, n) ==
    IF n = 0 THEN << >> ELSE <<first>> \o BytesFrom(first + 1, n - 1)

RECURSIVE ChunksFrom(_, _)
ChunksFrom(lens, first) ==
    IF lens = << >> THEN << >>
    ELSE <<BytesFrom(first, Head(lens))>>
            \o ChunksFrom(Tail(lens), first + Head(lens))

RECURSIVE SumLens(_)
SumLens(blocks) ==
    IF blocks = << >> THEN 0 ELSE Len(Head(blocks)) + SumLens(Tail(blocks))

ChunkLens ==
    UNION {[1..n -> 0..MaxChunkLen] : n \in 0..MaxChunks}

ChunkSequences == {ChunksFrom(lens, 1) : lens \in ChunkLens}

\* ------------------------------------------- tarinfo_from_libarchive_entry
\* Truth value of an Optional integer: None and 0 are false.
TruthyInt(o) == o # PyNone /\ Val(o) # 0

\* Defaults of a new tarfile.TarInfo: mtime 0, mode 0o644.
TarDefaultMtime == 0
TarDefaultMode == 420

\* tarfile.TarInfo(name)
TarInfo(name) ==
    [name |-> name, size |-> 0, mtime |-> TarDefaultMtime,
     mode |-> TarDefaultMode]

\* str(entry): the entry's path name.
Str(entry) == entry.name

\* if entry.mtime: ti.mtime = entry.mtime
SetMtime(ti, entry) ==
    IF TruthyInt(entry.mtime)
    THEN [ti EXCEPT !.mtime = Val(entry.mtime)] ELSE ti

\* if entry.mode: ti.mode = entry.mode
SetModeWithMtime(ti, entry) ==
    IF TruthyInt(entry.mode) /\ TruthyInt(entry.mtime)
    THEN [ti EXCEPT !.mode = Val(entry.mode)] ELSE ti

SetMode(ti, entry) ==
    IF TruthyInt(entry.mode)
    THEN [ti EXCEPT !.mode = Val(entry.mode)] ELSE ti

tarinfo_from_libarchive_entry(entry) ==
    LET ti == [TarInfo(Str(entry)) EXCEPT !.size = entry.size]
    IN SetMode(SetMtime(ti, entry), entry)

\* ------------------------------------------------------------- path filter
\* Truth value of an Optional string and of an Optional set.
TruthyStr(o) == o # PyNone /\ Val(o) # ""
TruthySet(o) == o # PyNone /\ Val(o) # {}

\* f.rstrip('\n'): a line is a sequence of characters.
RECURSIVE Rstrip(_)
Rstrip(f) ==
    IF f # << >> /\ f[Len(f)] = "\n"
    THEN Rstrip(SubSeq(f, 1, Len(f) - 1)) ELSE f

\* set(f.rstrip('\n') for f in infile)
FilterSetOf(lines) == {Rstrip(lines[i]) : i \in 1..Len(lines)}

\* str(entry) not in files_from_list, negated.
Admits(ffl, entry) == Str(entry) \in Val(ffl)

\* if files_from_list: the filtering loop is taken.
Filtering(ffl) == TruthySet(ffl)

\* ------------------------------------------------------------- tar.addfile
\* One event of the run: ev is its kind, a and e the archive and entry it
\* belongs to (0 when none), x what was written.
Event(ev, a, e, x) == [ev |-> ev, a |-> a, e |-> e, x |-> x]

\* tarfile.copyfileobj(src, dst, length, bufsize): the reads it makes on the
\* reader and the buffers it writes; ok is FALSE when a read comes back short
\* ("unexpected end of data").
RECURSIVE CopyBlocks(_, _, _, _)
CopyBlocks(src, nblocks, bufsize, bufs) ==
    IF nblocks = 0 THEN [src |-> src, bufs |-> bufs, ok |-> TRUE]
    ELSE LET r == read(src, Some(bufsize))
         IN IF Len(r.ret) < bufsize
            THEN [src |-> r.self, bufs |-> bufs, ok |-> FALSE]
            ELSE CopyBlocks(r.self, nblocks - 1, bufsize, Append(bufs, r.ret))

copyfileobj(src, length, bufsize) ==
    IF length = 0 THEN [src |-> src, bufs |-> << >>, ok |-> TRUE]
    ELSE LET full == CopyBlocks(src, length \div bufsize, bufsize, << >>)
             remainder == length % bufsize
         IN IF ~full.ok \/ remainder = 0 THEN full
            ELSE LET r == read(full.src, Some(remainder))
                 IN IF Len(r.ret) < remainder
                    THEN [src |-> r.self, bufs |-> full.bufs, ok |-> FALSE]
                    ELSE [src |-> r.self, bufs |-> Append(full.bufs, r.ret),
                          ok |-> TRUE]

RECURSIVE DataEvents(_, _, _)
DataEvents(a, e, bufs) ==
    IF bufs = << >> THEN << >>
    ELSE <<Event("data", a, e, Head(bufs))>> \o DataEvents(a, e, Tail(bufs))

\* ti = tarinfo_from_libarchive_entry(entry);
\* tar.addfile(ti, ArchiveEntryBlocks(iter(entry.get_blocks()))): the header,
\* then the content in buffers read from the reader.
AddFileEvents(a, e, entry) ==
    LET ti == tarinfo_from_libarchive_entry(entry)
        cp == copyfileobj(ArchiveEntryBlocks(entry.blocks), ti.size, CopyBufSize)
    IN [events |-> <<Event("header", a, e, ti)>> \o DataEvents(a, e, cp.bufs),
        ok |-> cp.ok]

\* ------------------------------------------------------------------- state
VARIABLES
    \* SpecReader: one reader and the calls made on it
    chunks,       \* the chunk sequence the reader was built over
    reader,       \* the ArchiveEntryBlocks object
    ncalls,       \* read calls made so far
    returned,     \* concatenation of the results of all calls so far
    requested,    \* sum of the positive sizes requested so far
    allPositive,  \* every call so far had a positive size
    drained,      \* a call with negative size (or None) has been made
    short,        \* a positive-size call has returned fewer bytes than asked
    last,         \* the last call: its argument, result and setting
    \* SpecPipeline: one run of extract_to_stdout
    archive_files,    \* the archives, each the sequence of its entries
    files_from,       \* -T: None, '', '-' or a file name
    listing,          \* the lines of stdin or of the file named by -T
    show_progress,    \* -p
    compressed,       \* -Z: None or a codec
    pc,               \* where the run is
    files_from_list,  \* None or the set of paths
    total,            \* total handed to the progress bar
    ai,               \* position in archive_files of the loop under way
    ei,               \* position in the open archive of the entry iteration
    z,                \* the open archive handle: None or its position
    tar,              \* the output tar stream
    prog,             \* the progress bar
    log,              \* the events of the run so far, in order
    \* SpecMapper: one entry and the TarInfo built from it
    m_entry,
    m_ti

readerVars ==
    <<chunks, reader, ncalls, returned, requested, allPositive, drained,
      short, last>>

inputVars == <<archive_files, files_from, listing, show_progress, compressed>>

runVars == <<pc, files_from_list, total, ai, ei, z, tar, prog, log>>

mapperVars == <<m_entry, m_ti>>

vars == <<readerVars, inputVars, runVars, mapperVars>>

\* ------------------------------------------------------------ idle values
NoCall == [arg |-> PyNone, ret |-> << >>, iters |-> 0, made |-> FALSE,
           pre |-> ArchiveEntryBlocks(<< >>), before |-> 0,
           drained |-> FALSE, short |-> FALSE]

NoTar == [state |-> "unopened", mode |-> << >>]
NoProg == [state |-> "none", total |-> 0, disable |-> TRUE, n |-> 0]
NoEntry == [name |-> << >>, size |-> 0, mtime |-> PyNone, mode |-> PyNone,
            blocks |-> << >>]

IdleReader ==
    /\ chunks = << >>
    /\ reader = ArchiveEntryBlocks(<< >>)
    /\ ncalls = 0
    /\ returned = << >>
    /\ requested = 0
    /\ allPositive = TRUE
    /\ drained = FALSE
    /\ short = FALSE
    /\ last = NoCall

IdleRun ==
    /\ pc = "idle"
    /\ files_from_list = PyNone
    /\ total = 0
    /\ ai = 0
    /\ ei = 0
    /\ z = PyNone
    /\ tar = NoTar
    /\ prog = NoProg
    /\ log = << >>

IdlePipeline ==
    /\ archive_files = << >>
    /\ files_from = PyNone
    /\ listing = << >>
    /\ show_progress = FALSE
    /\ compressed = PyNone
    /\ IdleRun

IdleMapper ==
    /\ m_entry = NoEntry
    /\ m_ti = PyNone

\* -------------------------------------------------------------- SpecReader
InitReader ==
    /\ chunks \in ChunkSequences
    /\ reader = ArchiveEntryBlocks(chunks)
    /\ ncalls = 0
    /\ returned = << >>
    /\ requested = 0
    /\ allPositive = TRUE
    /\ drained = FALSE
    /\ short = FALSE
    /\ last = NoCall
    /\ IdlePipeline
    /\ IdleMapper

\* One call reader.read(arg), with the bookkeeping of the observer.
Call(arg) ==
    LET r == read(reader, arg)
        size == IF arg = PyNone THEN -1 ELSE Val(arg)
    IN /\ ncalls < MaxCalls
       /\ reader' = r.self
       /\ ncalls' = ncalls + 1
       /\ returned' = returned \o r.ret
       /\ requested' = requested + (IF size > 0 THEN size ELSE 0)
       /\ allPositive' = (allPositive /\ size > 0)
       /\ drained' = (drained \/ size < 0)
       /\ short' = (short \/ (size > 0 /\ Len(r.ret) < size))
       /\ last' = [arg |-> arg, ret |-> r.ret, iters |-> r.iters,
                   made |-> TRUE, pre |-> reader, before |-> Len(returned),
                   drained |-> drained, short |-> short]
       /\ UNCHANGED <<chunks, inputVars, runVars, mapperVars>>

ReadPositive == \E n \in 1..MaxSize : Call(Some(n))
ReadSizeZero == Call(Some(0))
ReadNegative == Call(Some(-1))
ReadNone == Call(PyNone)

NextReader == ReadPositive \/ ReadSizeZero \/ ReadNegative \/ ReadNone

SpecReader == InitReader /\ [][NextReader]_vars

\* -------------------------------------------------------------- SpecMapper
EntryNames == {<<"a">>, <<"b">>}

MtimeValues == {PyNone, Some(0), Some(5), Some(1700000000)}
ModeValues == {PyNone, Some(0), Some(420), Some(493)}

InitMapper ==
    /\ m_entry \in [name : EntryNames \cup {<< >>}, size : 0..MaxEntrySize,
                    mtime : MtimeValues, mode : ModeValues, blocks : {<< >>}]
    /\ m_ti = PyNone
    /\ IdleReader
    /\ IdlePipeline

MapEntry ==
    /\ m_ti = PyNone
    /\ m_ti' = Some(tarinfo_from_libarchive_entry(m_entry))
    /\ UNCHANGED <<m_entry, readerVars, inputVars, runVars>>

NextMapper == MapEntry

SpecMapper == InitMapper /\ [][NextMapper]_vars

\* ------------------------------------------------------------ SpecPipeline
\* The entries the archives are made of.  "a" has content in three chunks,
\* the middle one empty, and carries a modify-time and permission bits; "b"
\* is empty and carries neither.
EntryNamed(name) ==
    IF name = <<"a">>
    THEN [name |-> name, size |-> 3, mtime |-> Some(1700000000),
          mode |-> Some(493), blocks |-> ChunksFrom(<<1, 0, 2>>, 1)]
    ELSE [name |-> name, size |-> 0, mtime |-> PyNone, mode |-> Some(0),
          blocks |-> << >>]

RECURSIVE EntriesNamed(_)
EntriesNamed(names) ==
    IF names = << >> THEN << >>
    ELSE <<EntryNamed(Head(names))>> \o EntriesNamed(Tail(names))

RECURSIVE ArchivesNamed(_)
ArchivesNamed(al) ==
    IF al = << >> THEN << >>
    ELSE <<EntriesNamed(Head(al))>> \o ArchivesNamed(Tail(al))

RECURSIVE CountEntries(_)
CountEntries(al) ==
    IF al = << >> THEN 0 ELSE Len(Head(al)) + CountEntries(Tail(al))

NameSeqs == UNION {[1..n -> EntryNames] : n \in 0..MaxEntries}

\* One archive or more (nargs='+'), MaxEntries entries at most in all.
ArchiveLists ==
    {ArchivesNamed(al) :
        al \in {x \in UNION {[1..k -> NameSeqs] : k \in 1..MaxArchives} :
                    CountEntries(x) <= MaxEntries}}

\* Lines as iterating a text file yields them: each ends with a newline,
\* except possibly the last one.
LinesEnded == {<<"a", "\n">>}
LinesOpen == {<<"b">>}

RECURSIVE LinesOf(_)
LinesOf(f) == IF f = << >> THEN << >> ELSE <<Head(f)>> \o LinesOf(Tail(f))

Listings ==
    {LinesOf(l) :
        l \in {x \in UNION {[1..n -> LinesEnded \cup LinesOpen] : n \in 0..MaxLines} :
                  \A i \in 1..(Len(x) - 1) : x[i] \in LinesEnded}}

FilesFromValues == {PyNone, Some(""), Some("-"), Some("list.txt")}
CompressedValues == {PyNone, Some("gz")}

InitPipeline ==
    /\ archive_files \in ArchiveLists
    /\ files_from \in FilesFromValues
    /\ listing \in (IF TruthyStr(files_from) THEN Listings ELSE {<< >>})
    /\ show_progress \in BOOLEAN
    /\ compressed \in CompressedValues
    /\ pc = "filter"
    /\ files_from_list = PyNone
    /\ total = 0
    /\ ai = 0
    /\ ei = 0
    /\ z = PyNone
    /\ tar = NoTar
    /\ prog = NoProg
    /\ log = << >>
    /\ IdleReader
    /\ IdleMapper

Frame == UNCHANGED <<inputVars, readerVars, mapperVars>>

\* An exception that leaves the with block of the archive without releasing
\* the handle, as a file_reader used without `with` would.
AbortKeepsHandle(lg) ==
    /\ pc' = "aborted"
    /\ tar' = IF tar.state = "open" THEN [tar EXCEPT !.state = "closed"] ELSE tar
    /\ prog' = IF prog.state = "open" THEN [prog EXCEPT !.state = "closed"] ELSE prog
    /\ log' = lg
                \o (IF tar.state = "open" THEN <<Event("tarclose", 0, 0, "error")>> ELSE << >>)
    /\ UNCHANGED <<files_from_list, total, ai, ei, z>>
    /\ UNCHANGED <<inputVars, readerVars, mapperVars>>

\* An exception raised at the archive ai, and at its entry ei when addfile
\* raised it; kind names the call that raised it.
Raised(kind) == Event("raise", ai, IF kind = "addfile" THEN ei ELSE 0, kind)

\* An exception leaves the with blocks from the inside out: the archive
\* handle is released, the tar stream is closed without its trailer, the
\* progress bar is closed.  lg is the log up to the exception.
Abort(lg) ==
    /\ pc' = "aborted"
    /\ z' = PyNone
    /\ tar' = IF tar.state = "open" THEN [tar EXCEPT !.state = "closed"] ELSE tar
    /\ prog' = IF prog.state = "open" THEN [prog EXCEPT !.state = "closed"] ELSE prog
    /\ log' = lg
                \o (IF z # PyNone THEN <<Event("close", Val(z), 0, "error")>> ELSE << >>)
                \o (IF tar.state = "open" THEN <<Event("tarclose", 0, 0, "error")>> ELSE << >>)
    /\ UNCHANGED <<files_from_list, total, ai, ei>>
    /\ Frame

\* for file in archive_files: the archive the loop is at.
ArchiveAtReversed(i) == archive_files[Len(archive_files) + 1 - i]

ArchiveAt(i) == archive_files[i]

\* Lines 137-143: the list of paths, from stdin, from the named file, or none.
LoadFilter ==
    /\ pc = "filter"
    /\ files_from_list' =
          IF files_from = Some("-") THEN Some(FilterSetOf(listing))
          ELSE IF TruthyStr(files_from) THEN Some(FilterSetOf(listing))
          ELSE PyNone
    /\ pc' = "total"
    /\ UNCHANGED <<total, ai, ei, z, tar, prog, log>>
    /\ Frame

\* open(files_from) raises inside the with block of the tar stream, as a
\* list opened only when the first archive is reached would.
LoadFilterFailsInStream ==
    /\ pc = "open"
    /\ files_from # Some("-")
    /\ TruthyStr(files_from)
    /\ Abort(Append(log, Raised("filter")))

\* open(files_from) raises: the named file cannot be read.
LoadFilterFails ==
    /\ pc = "filter"
    /\ files_from # Some("-")
    /\ TruthyStr(files_from)
    /\ Abort(Append(log, Raised("filter")))

\* The counting pass made whenever progress is shown, list or no list.
ComputeTotalAlwaysCounts ==
    /\ pc = "total"
    /\ total' = 0
    /\ ai' = IF show_progress THEN 1 ELSE ai
    /\ pc' = IF show_progress /\ Len(archive_files) >= 1
             THEN "prepass" ELSE "opentar"
    /\ UNCHANGED <<files_from_list, ei, z, tar, prog, log>>
    /\ Frame

\* Lines 145-148, 152-153: the total, or the start of the counting pass.
ComputeTotal ==
    /\ pc = "total"
    /\ IF show_progress /\ TruthySet(files_from_list)
       THEN /\ total' = Cardinality(Val(files_from_list))
            /\ pc' = "opentar"
            /\ ai' = ai
       ELSE IF show_progress
       THEN /\ total' = 0
            /\ ai' = 1
            /\ pc' = IF Len(archive_files) >= 1 THEN "prepass" ELSE "opentar"
       ELSE /\ total' = 0
            /\ pc' = "opentar"
            /\ ai' = ai
    /\ UNCHANGED <<files_from_list, ei, z, tar, prog, log>>
    /\ Frame

\* Line 150: libarchive.file_reader(file) in the counting pass.
PrepassOpen ==
    /\ pc = "prepass"
    /\ z = PyNone
    /\ z' = Some(ai)
    /\ log' = Append(log, Event("open", ai, 0, "prepass"))
    /\ UNCHANGED <<pc, files_from_list, total, ai, ei, tar, prog>>
    /\ Frame

PrepassOpenFails ==
    /\ pc = "prepass"
    /\ z = PyNone
    /\ Abort(Append(log, Raised("open")))

\* Line 151 and the end of the with block: count the entries, release the
\* handle, go on to the next archive.
PrepassCount ==
    /\ pc = "prepass"
    /\ z # PyNone
    /\ total' = total + Len(ArchiveAt(ai))
    /\ z' = PyNone
    /\ log' = Append(log, Event("close", ai, 0, "prepass"))
    /\ ai' = ai + 1
    /\ pc' = IF ai + 1 > Len(archive_files) THEN "opentar" ELSE "prepass"
    /\ UNCHANGED <<files_from_list, ei, tar, prog>>
    /\ Frame

\* The iteration over the entries raises in the counting pass.
PrepassCountFails ==
    /\ pc = "prepass"
    /\ z # PyNone
    /\ Abort(Append(log, Raised("iterate")))

\* Lines 155-160: the progress bar and the tar stream on stdout.
OpenTar ==
    /\ pc = "opentar"
    /\ prog' = [state |-> "open", total |-> total, disable |-> ~show_progress,
                n |-> 0]
    /\ tar' = [state |-> "open",
               mode |-> <<"w|", IF TruthyStr(compressed) THEN Val(compressed) ELSE "">>]
    /\ log' = Append(log, Event("taropen", 0, 0, "ok"))
    /\ ai' = 1
    /\ pc' = IF Len(archive_files) >= 1 THEN "open" ELSE "closetar"
    /\ UNCHANGED <<files_from_list, total, ei, z>>
    /\ Frame

\* Lines 163 and 174: libarchive.file_reader(file) in the streaming loops.
StreamOpen ==
    /\ pc = "open"
    /\ z' = Some(ai)
    /\ ei' = 1
    /\ log' = Append(log, Event("open", ai, 0, "stream"))
    /\ pc' = "entry"
    /\ UNCHANGED <<files_from_list, total, ai, tar, prog>>
    /\ Frame

\* What a try/except around file_reader that goes on to the next archive
\* would do.
StreamOpenFailsSkips ==
    /\ pc = "open"
    /\ log' = Append(log, Raised("open"))
    /\ ai' = ai + 1
    /\ pc' = IF ai + 1 > Len(archive_files) THEN "closetar" ELSE "open"
    /\ UNCHANGED <<files_from_list, total, ei, z, tar, prog>>
    /\ Frame

StreamOpenFails ==
    /\ pc = "open"
    /\ Abort(Append(log, Raised("open")))

HasEntry == pc = "entry" /\ ei <= Len(ArchiveAt(ai))

\* for entry in z: the entry the iteration is at.
CurrentEntry == ArchiveAt(ai)[ei]

\* prog.update()
Updated(p) == [p EXCEPT !.n = IF p.disable THEN @ ELSE @ + 1]

\* Lines 165-167: an entry the list does not name: update, continue.
SkipEntryNoUpdate ==
    /\ HasEntry
    /\ Filtering(files_from_list)
    /\ ~Admits(files_from_list, CurrentEntry)
    /\ ei' = ei + 1
    /\ UNCHANGED <<pc, files_from_list, total, ai, z, tar, prog, log>>
    /\ Frame

SkipEntry ==
    /\ HasEntry
    /\ Filtering(files_from_list)
    /\ ~Admits(files_from_list, CurrentEntry)
    /\ prog' = Updated(prog)
    /\ log' = Append(log, Event("update", ai, ei, "skipped"))
    /\ ei' = ei + 1
    /\ UNCHANGED <<pc, files_from_list, total, ai, z, tar>>
    /\ Frame

\* Lines 168-170 and 176-178: the header and the content of the entry.
AddFile ==
    /\ HasEntry
    /\ Filtering(files_from_list) => Admits(files_from_list, CurrentEntry)
    /\ LET w == AddFileEvents(ai, ei, CurrentEntry)
       IN IF w.ok
          THEN /\ log' = log \o w.events
               /\ pc' = "update"
               /\ UNCHANGED <<files_from_list, total, ai, ei, z, tar, prog>>
               /\ Frame
          ELSE Abort(Append(log \o w.events, Raised("addfile")))

\* Reading the entry or writing to stdout raises after k of the writes.
AddFileFails ==
    /\ HasEntry
    /\ Filtering(files_from_list) => Admits(files_from_list, CurrentEntry)
    /\ LET w == AddFileEvents(ai, ei, CurrentEntry)
       IN \E k \in 0..(Len(w.events) - 1) : Abort(Append(log \o SubSeq(w.events, 1, k), Raised("addfile")))

\* Lines 171 and 179: prog.update() after addfile.
Update ==
    /\ pc = "update"
    /\ prog' = Updated(prog)
    /\ log' = Append(log, Event("update", ai, ei, "written"))
    /\ ei' = ei + 1
    /\ pc' = "entry"
    /\ UNCHANGED <<files_from_list, total, ai, z, tar>>
    /\ Frame

\* The end of the with block of an archive, leaving the loop over the
\* archives at once, as a break or return after the first archive would.
StreamCloseLeavesLoop ==
    /\ pc = "entry"
    /\ ei > Len(ArchiveAt(ai))
    /\ z' = PyNone
    /\ log' = Append(log, Event("close", ai, 0, "stream"))
    /\ ai' = ai + 1
    /\ pc' = "closetar"
    /\ UNCHANGED <<files_from_list, total, ei, tar, prog>>
    /\ Frame

\* The end of the with block of an archive: release the handle, go on to
\* the next archive or leave the loop.
StreamClose ==
    /\ pc = "entry"
    /\ ei > Len(ArchiveAt(ai))
    /\ z' = PyNone
    /\ log' = Append(log, Event("close", ai, 0, "stream"))
    /\ ai' = ai + 1
    /\ pc' = IF ai + 1 > Len(archive_files) THEN "closetar" ELSE "open"
    /\ UNCHANGED <<files_from_list, total, ei, tar, prog>>
    /\ Frame

\* The end of the outer with block: the tar stream writes its trailer and
\* closes, the progress bar closes.
CloseTar ==
    /\ pc = "closetar"
    /\ tar' = [tar EXCEPT !.state = "closed"]
    /\ prog' = [prog EXCEPT !.state = "closed"]
    /\ log' = Append(log, Event("trailer", 0, 0, "ok"))
    /\ pc' = "done"
    /\ UNCHANGED <<files_from_list, total, ai, ei, z>>
    /\ Frame

NextPipeline ==
    \/ LoadFilter \/ LoadFilterFails
    \/ ComputeTotal
    \/ PrepassOpen \/ PrepassOpenFails \/ PrepassCount \/ PrepassCountFails
    \/ OpenTar
    \/ StreamOpen \/ StreamOpenFails
    \/ SkipEntry \/ AddFile \/ AddFileFails \/ Update \/ StreamClose
    \/ CloseTar

SpecPipeline == InitPipeline /\ [][NextPipeline]_vars

\* ------------------------------------------------- properties of the reader
\* The entry's content: bytes 1..n, n the total length of the chunks.
Content == BytesFrom(1, SumLens(chunks))

IsNegative(arg) == arg = PyNone \/ Val(arg) < 0
IsPositive(arg) == arg # PyNone /\ Val(arg) > 0

\* C1: on a fresh reader, after every call of a sequence of positive-size
\* reads the results so far concatenate to the first
\* min(sum of sizes, total length) bytes of the content; once the sizes add up
\* to the total length or more, they concatenate to what read(-1) returns on
\* a fresh reader over the same chunks.
C1_PositiveReadsYieldPrefix ==
    allPositive =>
        /\ returned = SubSeq(Content, 1, Min(requested, Len(Content)))
        /\ (requested >= Len(Content) =>
                returned = read(ArchiveEntryBlocks(chunks), Some(-1)).ret)

\* Two or more positive reads, the last one crossing three chunks, one of
\* the chunks empty, and stopping in the middle of a chunk.
C1_Witness ==
    /\ allPositive
    /\ ncalls >= 2
    /\ last.iters >= 3
    /\ reader.cursor # PyNone
    /\ \E i \in 1..Len(chunks) : chunks[i] = << >>

\* C2: a read with negative size (or None), in any reachable state, returns
\* exactly the bytes not yet returned: the rest of the held chunk, then the
\* chunks not yet pulled.
C2_NegativeReadReturnsRest ==
    (last.made /\ IsNegative(last.arg)) =>
        last.ret = SubSeq(Content, last.before + 1, Len(Content))

\* C3: once a read with negative size has been made, every later read
\* returns the empty byte string.
C3_EmptyAfterNegativeRead ==
    (last.made /\ last.drained) => last.ret = << >>

\* C4: read(-1) or read(None) as the first call on a fresh reader returns
\* the whole content, the chunks concatenated in order.
C4_FreshReadAllIsContent ==
    (ncalls = 1 /\ IsNegative(last.arg)) => last.ret = Content

\* A first read(None) over three chunks, the middle one empty.
C4_Witness ==
    /\ ncalls = 1
    /\ last.arg = PyNone
    /\ Len(chunks) = 3
    /\ chunks[2] = << >>
    /\ Len(last.ret) >= 2

\* C5: after a short read every later read, of any size, returns the empty
\* byte string.
C5_EmptyAfterShortRead ==
    (last.made /\ last.short) => last.ret = << >>

\* A short read that returned bytes, followed by two more calls, the last
\* of them with a positive size.
C5_Witness ==
    /\ last.short
    /\ ncalls >= 3
    /\ IsPositive(last.arg)
    /\ returned # << >>
    /\ last.before = Len(Content)

\* C6: read(0) returns the empty byte string and leaves the reader as it
\* was: same iterator position, same held chunk, same cursor.
C6_ReadZeroChangesNothing ==
    (last.made /\ last.arg = Some(0)) =>
        /\ last.ret = << >>
        /\ reader = last.pre

\* read(0) on a reader that holds a partly consumed chunk and has chunks
\* left to pull.
C6_Witness ==
    /\ last.made
    /\ last.arg = Some(0)
    /\ last.pre.cursor # PyNone
    /\ last.pre.blocks # << >>

\* ----------------------------------------------- properties of the pipeline
IsPrefix(u, v) == Len(u) <= Len(v) /\ SubSeq(v, 1, Len(u)) = u

RECURSIVE Tags(_)
Tags(events) ==
    IF events = << >> THEN << >>
    ELSE <<<<Head(events).a, Head(events).e>>>> \o Tags(Tail(events))

IsHeader(ev) == ev.ev = "header"
IsData(ev) == ev.ev = "data"
IsOutput(ev) == IsHeader(ev) \/ IsData(ev)
IsUpdate(ev) == ev.ev = "update"

\* What the run has written for entries, and the updates it has made.
Output == SelectSeq(log, IsOutput)
Headers == SelectSeq(log, IsHeader)
Updates == SelectSeq(log, IsUpdate)

EntryAt(tag) == archive_files[tag[1]][tag[2]]

\* The entries of archive a from position e on, then those of the archives
\* after it, as <<archive, entry>> positions; keep is the set of names that count.
RECURSIVE EntriesFrom(_, _, _)
EntriesFrom(a, e, keep) ==
    IF a > Len(archive_files) THEN << >>
    ELSE IF e > Len(archive_files[a]) THEN EntriesFrom(a + 1, 1, keep)
    ELSE (IF archive_files[a][e].name \in keep THEN <<<<a, e>>>> ELSE << >>)
            \o EntriesFrom(a, e + 1, keep)

AllNames ==
    UNION {{archive_files[a][e].name : e \in 1..Len(archive_files[a])} :
              a \in 1..Len(archive_files)}

AllEntries == EntriesFrom(1, 1, AllNames)

\* The bytes written for the entry at tag, in order.
RECURSIVE DataOf(_, _)
DataOf(events, tag) ==
    IF events = << >> THEN << >>
    ELSE (IF IsData(Head(events)) /\ <<Head(events).a, Head(events).e>> = tag
          THEN Head(events).x ELSE << >>) \o DataOf(Tail(events), tag)

Streaming == pc \in {"open", "entry", "update", "closetar", "done"}

\* C7: an entry is written if and only if no list was supplied or the list
\* names it; with a supplied list that names nothing, nothing is written.
ListAdmits ==
    IF files_from_list = PyNone THEN AllNames ELSE Val(files_from_list)

C7_WrittenIffListAdmits ==
    /\ \A i \in 1..Len(Headers) :
          EntryAt(<<Headers[i].a, Headers[i].e>>).name \in ListAdmits
    /\ pc = "done" => Tags(Headers) = EntriesFrom(1, 1, ListAdmits)

\* C8: the entries written are the entries the filter step lets through, in
\* the order of the archives and, within an archive, of its entries; every
\* write of content directly follows the header or content of the same entry;
\* a written entry carries its own name and, once it is complete, its whole
\* content.
Passes ==
    IF files_from_list = PyNone \/ Val(files_from_list) = {}
    THEN AllNames ELSE Val(files_from_list)

C9_OneUpdatePerEntry ==
    /\ IsPrefix(Tags(Updates), AllEntries)
    /\ prog.n = (IF prog.disable THEN 0 ELSE Len(Updates))
    /\ \A i \in 1..Len(Headers) :
          \/ i <= Len(Updates) /\ \E j \in 1..Len(Updates) :
                                      Tags(<<Updates[j]>>) = Tags(<<Headers[i]>>)
          \/ i = Len(Headers) /\ pc \in {"update", "aborted"}
    /\ \A i \in 1..Len(log) :
          (IsUpdate(log[i]) /\ log[i].x = "written") =>
              /\ i > 1
              /\ IsOutput(log[i - 1])
              /\ Tags(<<log[i - 1]>>) = Tags(<<log[i]>>)
              /\ Len(DataOf(SubSeq(log, 1, i), <<log[i].a, log[i].e>>))
                    = EntryAt(<<log[i].a, log[i].e>>).size
              /\ \A j \in (i + 1)..Len(log) :
                    IsOutput(log[j]) => Tags(<<log[j]>>) # Tags(<<log[i]>>)
    /\ pc = "done" =>
          /\ Tags(Updates) = AllEntries
          /\ Len(Updates) = CountEntries(archive_files)

\* A finished run with the progress bar shown that skipped an entry and
\* wrote one with content.
C9_Witness ==
    /\ pc = "done"
    /\ ~prog.disable
    /\ prog.n = 2
    /\ \E i \in 1..Len(Updates) : Updates[i].x = "skipped"
    /\ \E i \in 1..Len(Headers) : Headers[i].x.size > 0

\* ------------------------------------------------- properties of the mapper
\* C10: the TarInfo carries the entry's name and size as they are; its
\* modify-time is the entry's when that is present and not zero, and the
\* default of a new TarInfo otherwise; its permission bits follow the same
\* rule, whatever the modify-time is.
C10_MapperSetsFields ==
    m_ti # PyNone =>
        /\ Val(m_ti).name = m_entry.name
        /\ Val(m_ti).size = m_entry.size
        /\ Val(m_ti).mtime =
              (IF m_entry.mtime # PyNone /\ Val(m_entry.mtime) # 0
               THEN Val(m_entry.mtime) ELSE TarInfo(<< >>).mtime)
        /\ Val(m_ti).mode =
              (IF m_entry.mode # PyNone /\ Val(m_entry.mode) # 0
               THEN Val(m_entry.mode) ELSE TarInfo(<< >>).mode)

\* An empty entry with modify-time 0 and permission bits set: the bits are
\* taken, the modify-time is the default.
C10_Witness ==
    /\ m_ti # PyNone
    /\ m_entry.size = 0
    /\ m_entry.mtime = Some(0)
    /\ m_entry.mode = Some(493)
    /\ Val(m_ti).mode = 493

\* ---- The run: failures, handles, phases ----

IsRaise(ev) == ev.ev = "raise"
IsHandle(ev) == ev.ev = "open" \/ ev.ev = "close"
IsUnwind(ev) ==
    (ev.ev = "close" \/ ev.ev = "tarclose") /\ ev.x = "error"

Raises == SelectSeq(log, IsRaise)
Handles == SelectSeq(log, IsHandle)

\* The exception was raised in the with block of lines 159-179.
RaisedInStream ==
    /\ Raises # << >>
    /\ \E i \in 1..Len(log) : log[i].ev = "taropen"

\* C11: a failure in the Stream phase ends the run: after the exception
\* nothing happens but the release of the handle and the closing of the
\* stream (no header, no content, no update, no archive opened, no second
\* attempt, no trailer), no step of the run is possible any more, and what
\* was written before the exception is still the output.
C11_FailureEndsRun ==
    /\ Raises # << >> <=> pc = "aborted"
    /\ Len(Raises) <= 1
    /\ \A i \in 1..Len(log) : \A j \in (i + 1)..Len(log) :
          IsRaise(log[i]) => IsUnwind(log[j])
    /\ pc = "aborted" => ~ENABLED NextPipeline
    /\ RaisedInStream =>
          /\ z = PyNone
          /\ tar.state = "closed"
          /\ \A i \in 1..Len(Raises) :
                Raises[i].a \in 1..Len(archive_files)
                /\ \A j \in 1..Len(log) :
                      log[j].ev = "open" /\ log[j].x = "stream"
                         => log[j].a <= Raises[i].a

\* An addfile fails in the first of two archives after a header was written.
C11_Witness ==
    /\ pc = "aborted"
    /\ RaisedInStream
    /\ Len(archive_files) = 2
    /\ Raises[1].a = 1
    /\ Raises[1].x = "addfile"
    /\ Len(Output) >= 1

\* ---- The reader: the cursor ----

\* How many chunks have been taken from self.blocks, by next() or by join.
Pulled == Len(chunks) - Len(reader.blocks)

Bytes(seq) == {seq[i] : i \in 1..Len(seq)}

\* The bytes of a chunk that no call has returned.
Unreturned(chunk) == Bytes(chunk) \ Bytes(returned)

\* The last n bytes of a chunk.
Tail_(chunk, n) == SubSeq(chunk, Len(chunk) - n + 1, Len(chunk))

\* A chunk is held of which some bytes, not all, have been returned.
HoldsPartial ==
    /\ reader.curr_block # PyNone
    /\ Unreturned(Val(reader.curr_block)) # {}
    /\ Unreturned(Val(reader.curr_block)) # Bytes(Val(reader.curr_block))

\* C12: in every state of the reader the cursor is None or an offset in
\* 0..len of the chunk most recently taken from the sequence; it is None
\* exactly when no partly returned chunk is held; when it is not None it is
\* the number of bytes at the end of the held chunk not yet returned.
C12_CursorIsOffsetIntoLastPulled ==
    /\ reader.cursor = PyNone <=> ~HoldsPartial
    /\ reader.cursor # PyNone =>
          /\ reader.curr_block # PyNone
          /\ Val(reader.cursor) \in 0..Len(Val(reader.curr_block))
          /\ Pulled >= 1
          /\ Val(reader.curr_block) = chunks[Pulled]
          /\ Unreturned(Val(reader.curr_block))
                = Bytes(Tail_(Val(reader.curr_block), Val(reader.cursor)))

\* ---- The reader: one positive-size read ----

\* The last call was a read of a positive size.
PositiveCall == last.made /\ IsPositive(last.arg)

\* The bytes held at the start of the last call: the end of the held chunk.
HeldBefore ==
    IF last.pre.cursor = PyNone THEN << >>
    ELSE Tail_(Val(last.pre.curr_block), Val(last.pre.cursor))

\* The chunks the last call took from the sequence.
PulledBy == Len(last.pre.blocks) - Len(reader.blocks)
ChunksPulledBy == SubSeq(last.pre.blocks, 1, PulledBy)

\* The bytes the last call had at hand: the held ones, then the pulled ones.
Supplied == HeldBefore \o Join(ChunksPulledBy)

\* The chunk the last call touched last.
LastTouched ==
    IF PulledBy > 0 THEN Some(last.pre.blocks[PulledBy]) ELSE last.pre.curr_block

\* C13: a positive-size read returns the held bytes first, then the bytes
\* of the chunks it pulls, and pulls a chunk only while bytes are still
\* needed; when the last chunk it touches supplies more than that, the cursor
\* afterwards is the surplus in that chunk; when it supplies exactly that, or
\* the sequence is exhausted, the cursor afterwards is None and no further
\* chunk has been pulled.
C13_PositiveReadStep ==
    PositiveCall =>
       LET size == Val(last.arg)
       IN /\ reader.blocks
               = SubSeq(last.pre.blocks, PulledBy + 1, Len(last.pre.blocks))
          /\ last.ret = SubSeq(Supplied, 1, Min(size, Len(Supplied)))
          /\ PulledBy > 0 =>
                Len(HeldBefore)
                   + SumLens(SubSeq(last.pre.blocks, 1, PulledBy - 1)) < size
          /\ Len(Supplied) > size =>
                /\ reader.cursor = Some(Len(Supplied) - size)
                /\ reader.curr_block = LastTouched
          /\ Len(Supplied) <= size => reader.cursor = PyNone
          /\ Len(Supplied) < size => reader.blocks = << >>

\* A read that starts in a held chunk, pulls at least one more chunk and
\* stops inside the last one.
C13_Witness ==
    /\ PositiveCall
    /\ last.pre.cursor # PyNone
    /\ PulledBy >= 1
    /\ reader.cursor # PyNone

\* ---- The reader: termination ----

\* C20: every call returns; it takes chunks from the front of what is left
\* of the sequence, each once, and the loop of a positive-size read makes at
\* most (chunks not yet pulled + 2) iterations, the break on the exhausted
\* sequence included; a read of size 0 or of a negative size makes none.
C20_ReadLoopBounded ==
    last.made =>
       /\ PulledBy \in 0..Len(last.pre.blocks)
       /\ reader.blocks
            = SubSeq(last.pre.blocks, PulledBy + 1, Len(last.pre.blocks))
       /\ IF IsPositive(last.arg)
          THEN last.iters <= Len(last.pre.blocks) + 2
          ELSE last.iters = 0

\* A read that meets the bound: it starts in a held chunk, pulls every chunk
\* left, one of them empty, and ends on the exhausted sequence.
C20_Witness ==
    /\ PositiveCall
    /\ Len(last.pre.blocks) >= 2
    /\ last.iters = Len(last.pre.blocks) + 2
    /\ \E i \in 1..Len(last.pre.blocks) : last.pre.blocks[i] = << >>

\* ---- The run: the progress total ----

\* The calls of prog.update() the run has made.
UpdateCalls == Len(Updates)

\* C14: when progress is requested, the total computed before streaming is
\* the value the counter of processed entries has at the end of a successful
\* run, for every list and every sequence of archives.
C14_TotalIsFinalCount ==
    pc = "done" /\ show_progress =>
       /\ prog.total = total
       /\ prog.n = UpdateCalls
       /\ total = prog.n

\* ---- The run: before the stream is opened ----

\* The log up to the opening of the tar stream.
InitLog ==
    IF \E i \in 1..Len(log) : log[i].ev = "taropen"
    THEN SubSeq(log, 1, (CHOOSE i \in 1..Len(log) : log[i].ev = "taropen") - 1)
    ELSE log

\* The openings and releases of handles among events, as <<kind, archive>>.
RECURSIVE HandleSteps(_)
HandleSteps(events) ==
    IF events = << >> THEN << >>
    ELSE (IF IsHandle(Head(events))
          THEN <<<<Head(events).ev, Head(events).a>>>> ELSE << >>)
         \o HandleSteps(Tail(events))

\* Archive a opened and released, then a + 1, ... to the last one.
RECURSIVE InTurnFrom(_)
InTurnFrom(a) ==
    IF a > Len(archive_files) THEN << >>
    ELSE <<<<"open", a>>, <<"close", a>>>> \o InTurnFrom(a + 1)

\* Lines 146 and 148: the branch that counts by opening the archives.
CountingPass == show_progress /\ ~TruthySet(files_from_list)

BeforeStream == pc \in {"filter", "total", "prepass"}

\* C15: before the stream is opened no archive is opened when progress is
\* not requested, and none when the total is the size of a non-empty list;
\* when the counting pass runs it opens and releases each archive in turn,
\* in the order given, its total is the number of their entries, and it
\* reads no content and writes nothing (no header, no content, no update).
C15_InitOpensOnlyToCount ==
    /\ \A i \in 1..Len(InitLog) :
          IsHandle(InitLog[i]) \/ IsRaise(InitLog[i])
    /\ \A i \in 1..Len(InitLog) :
          IsHandle(InitLog[i]) => InitLog[i].x \in {"prepass", "error"}
    /\ ~CountingPass => HandleSteps(InitLog) = << >>
    /\ IsPrefix(HandleSteps(InitLog), InTurnFrom(1))
    /\ CountingPass /\ ~BeforeStream /\ pc # "aborted" =>
          /\ HandleSteps(InitLog) = InTurnFrom(1)
          /\ total = CountEntries(archive_files)
    /\ ~show_progress /\ ~BeforeStream => total = 0

\* The counting pass has gone over two archives, one of them with entries.
C15_Witness ==
    /\ CountingPass
    /\ pc = "opentar"
    /\ Len(archive_files) = 2
    /\ total >= 1
    /\ HandleSteps(InitLog) = InTurnFrom(1)

\* ---- The run: entries the list does not name ----

\* The positions <<archive, entry>> of all entries.
AllTags ==
    {<<a, e>> : a \in 1..Len(archive_files), e \in 1..MaxEntries}
       \cap {t \in (1..MaxArchives) \X (1..MaxEntries) :
                t[1] <= Len(archive_files)
                /\ t[2] <= Len(archive_files[t[1]])}

\* A list was supplied and does not name the entry at tag.
Rejected(tag) ==
    /\ files_from_list # PyNone
    /\ Str(EntryAt(tag)) \notin Val(files_from_list)

EventsOf(tag) ==
    {i \in 1..Len(log) : log[i].a = tag[1] /\ log[i].e = tag[2]}

\* C16: for an entry the list does not name nothing is read and nothing is
\* written, neither header nor content; all that processing it does is one
\* advance of the progress counter.
C16_RejectedEntryOnlyCounts ==
    \A tag \in AllTags :
       Rejected(tag) =>
          /\ \A i \in EventsOf(tag) :
                log[i].ev = "update" /\ log[i].x = "skipped"
          /\ Cardinality(EventsOf(tag)) <= 1
          /\ pc = "done" => Cardinality(EventsOf(tag)) = 1

\* ---- The run: archive handles ----

\* The handle that the openings and releases in steps leave open, PyNone
\* when none; <<"broken">> when an opening meets an open handle or a release
\* does not meet the handle of its archive.
RECURSIVE OpenAfter(_, _)
OpenAfter(steps, open) ==
    IF steps = << >> THEN open
    ELSE LET s == Head(steps)
         IN IF s[1] = "open"
            THEN IF open = PyNone
                 THEN OpenAfter(Tail(steps), Some(s[2])) ELSE <<"broken">>
            ELSE IF open = Some(s[2])
                 THEN OpenAfter(Tail(steps), PyNone) ELSE <<"broken">>

\* C17: at every point of the run at most one archive handle is open; each
\* handle is released before the next archive is opened; when the run has
\* ended, normally or by a failure in the counting pass or while streaming,
\* no handle is open.
C17_OneHandleAtATime ==
    /\ OpenAfter(HandleSteps(log), PyNone) = z
    /\ z # PyNone => Val(z) = ai /\ pc \in {"prepass", "entry", "update"}
    /\ pc \in {"done", "aborted"} => z = PyNone

\* After a counting pass over two archives, addfile fails in the first one
\* while its handle is open; the handle is released by the exception.
C17_Witness ==
    /\ pc = "aborted"
    /\ Len(archive_files) = 2
    /\ Raises[1].x = "addfile"
    /\ Len(HandleSteps(log)) = 6
    /\ log[Len(log) - 1] = Event("close", 1, 0, "error")

\* ---- The run: the phases ----

\* The log from the opening of the tar stream on, that event left out.
StreamLog == SubSeq(log, Len(InitLog) + 2, Len(log))

IsTrailer(ev) == ev.ev = "trailer"
IsStreamStep(ev) ==
    \/ IsOutput(ev) \/ IsUpdate(ev)
    \/ (IsHandle(ev) /\ ev.x = "stream")

\* C18: a successful run closes the output stream, writing its trailer,
\* exactly once, after every archive has been opened, iterated to its last
\* entry and released, each in turn; nothing is written after the trailer;
\* the run goes from Init (the list, the total) to Stream to Close: what
\* precedes the opening of the stream is the counting pass only, what lies
\* between the opening and the trailer is the streaming only.
C18_TrailerOnceAfterAllArchives ==
    /\ Len(SelectSeq(log, IsTrailer)) <= 1
    /\ \A i \in 1..Len(log) : IsTrailer(log[i]) => i = Len(log)
    /\ SelectSeq(log, IsTrailer) # << >> <=> pc = "done"
    /\ \A i \in 1..Len(InitLog) : ~IsStreamStep(InitLog[i])
    /\ pc = "done" =>
          /\ tar.state = "closed"
          /\ Len(InitLog) < Len(log)
          /\ \A i \in 1..(Len(StreamLog) - 1) : IsStreamStep(StreamLog[i])
          /\ HandleSteps(StreamLog) = InTurnFrom(1)
          /\ Tags(Updates) = AllEntries
          /\ \A i \in 1..Len(InitLog) : InitLog[i].x = "prepass"

\* A finished run over two archives, after a counting pass, that wrote an
\* entry.
C18_Witness ==
    /\ pc = "done"
    /\ Len(archive_files) = 2
    /\ show_progress
    /\ InitLog # << >>
    /\ Headers # << >>

\* ---- The run: the list cannot be read ----

\* The set the list gives, PyNone when no list is asked for (lines 137-143).
ListRead ==
    IF files_from = Some("-") \/ TruthyStr(files_from)
    THEN Some(FilterSetOf(listing)) ELSE PyNone

FilterListError ==
    \E i \in 1..Len(log) : IsRaise(log[i]) /\ log[i].x = "filter"

\* C19: the list is read, whole, before anything else happens; when the
\* named list cannot be read the run ends with no archive opened, the output
\* stream not opened and nothing written.
C19_ListReadBeforeAnything ==
    /\ pc = "filter" => log = << >> /\ z = PyNone /\ tar = NoTar
    /\ log # << >> /\ ~FilterListError => files_from_list = ListRead
    /\ FilterListError =>
          /\ pc = "aborted"
          /\ Len(log) = 1
          /\ z = PyNone
          /\ tar = NoTar
          /\ prog = NoProg
          /\ ai = 0

\* The named list cannot be read, with an archive that has entries at hand.
C19_Witness ==
    /\ FilterListError
    /\ pc = "aborted"
    /\ files_from = Some("list.txt")
    /\ AllEntries # << >>

====
